---- MODULE Spec2Model ----
(***************************************************************************)
(* Model of xenserver/resource_vbd.go: the VBD (virtual block device) part *)
(* of the XenServer Terraform provider.                                    *)
(*                                                                         *)
(* Go strings are modelled as sequences of bytes (ASCII codes), so that    *)
(* strings.ToLower, fmt.Sprintf and the CRC-32 of hashcode.String are      *)
(* computed the way the code computes them.  Remote calls are steps whose  *)
(* outcome (success or failure, and the data returned) is chosen by the    *)
(* environment; every call is appended to the log `calls`.                 *)
(***************************************************************************)
EXTENDS Integers, Sequences, FiniteSets, TLC

VARIABLES
    flow,       \* which entry point of the file is running
    pc,         \* position inside the running function
    vmVBDs,     \* remote side: the VM's attachments, indexed by VBD reference
    powerState, \* vm.PowerState as observed by the caller
    vbdType,    \* the vbdType argument of createVBDs / readTemplateVBDsToSchema
    s,          \* the declared records (the []interface{} argument), mutable
    refs,       \* vmVBDRefs: the references returned by VM.GetVBDs
    i,          \* index of the range loop over references / descriptors
    j,          \* index of the range loop over declared records
    m,          \* index of the declared record matched by the binding loop
    vbd,        \* the local *VBDDescriptor being worked on
    vbdObject,  \* createVBD: the xenAPI.VBDRecord passed to VBD.Create
    vbds,       \* destroyTemplateVDIs: the []*VBDDescriptor argument
    hdd,        \* readVBDs: the hard-drive list built so far
    cdrom,      \* readVBDs: the cdrom list built so far
    out,        \* readVBDs: the returned pair of lists, <<>> when both are nil
    hashes,     \* vbdHash: the fingerprints computed for s[1], s[2], ...
    parsed,     \* readVBDFromSchema: the returned (descriptor, error) pair
    bindRet,    \* what readTemplateVBDsToSchema returned
    result,     \* what the running function returned
    calls       \* log of the remote calls issued so far

vars == <<flow, pc, vmVBDs, powerState, vbdType, s, refs, i, j, m, vbd, vbdObject, vbds,
          hdd, cdrom, out, hashes, parsed, bindRet, result, calls>>

----------------------------------------------------------------------------
(* Bounds of the model.                                                    *)

MaxVBDs == 2
MaxRecords == 2

----------------------------------------------------------------------------
(* Byte strings.                                                           *)

Str_empty == <<>>
Str_RO == <<82, 79>>
Str_RW == <<82, 87>>
Str_true == <<116, 114, 117, 101>>
Str_false == <<102, 97, 108, 115, 101>>
Str_dash == <<45>>

\* strings.ToLower on one ASCII byte
ToLowerByte(b) == IF b >= 65 /\ b <= 90 THEN b + 32 ELSE b

\* strings.ToLower
ToLower(str) == [k \in 1..Len(str) |-> ToLowerByte(str[k])]

\* xenAPI.VbdType values used by the file, and one the file does not support
VbdTypeCD == "CD"
VbdTypeDisk == "Disk"
VbdTypeFloppy == "Floppy"

\* xenAPI.VbdMode values (the enum is a Go string type)
VbdModeRO == Str_RO
VbdModeRW == Str_RW

VMPowerStateRunning == "Running"
VMPowerStateHalted == "Halted"

\* A nil *VDIDescriptor
NoVDI == [nil |-> TRUE, uuid |-> Str_empty]
VDI(u) == [nil |-> FALSE, uuid |-> u]

\* Returned errors. kind "nil" is the nil error, kind "panic" is the run-time
\* panic of a nil pointer dereference, kind "none" means nothing returned yet.
Err(k, a) == [kind |-> k, arg |-> a]
ErrNone == Err("none", Str_empty)
ErrNil == Err("nil", Str_empty)
ErrPanic == Err("panic", Str_empty)
ErrRemote == Err("remote", Str_empty)

----------------------------------------------------------------------------
(* Data shapes.                                                            *)

\* VBDDescriptor. `nil` marks the nil pointer returned beside an error.
Descriptor(r, u, t, dev, tmpl, vdi, boot, mode) ==
    [nil |-> FALSE, ref |-> r, uuid |-> u, type |-> t, userDevice |-> dev,
     isTemplate |-> tmpl, vdi |-> vdi, bootable |-> boot, mode |-> mode]

NilVBD ==
    [nil |-> TRUE, ref |-> 0, uuid |-> Str_empty, type |-> "", userDevice |-> Str_empty,
     isTemplate |-> FALSE, vdi |-> NoVDI, bootable |-> FALSE, mode |-> Str_empty]

\* One declared record: the map[string]interface{} with the five schema keys.
\* has_vdi_uuid tells whether the map holds the key vdi_uuid at all.
Record(hasVdi, vdiUUID, boot, mode, dev, tmpl) ==
    [has_vdi_uuid |-> hasVdi, vdi_uuid |-> vdiUUID, bootable |-> boot,
     mode |-> mode, user_device |-> dev, is_from_template |-> tmpl]

\* One entry of the call log.
\*   rec:  index of the declared record the call was issued for (0: none)
\*   ref:  the VBD reference the call is about or returns (0: none)
\*   dev:  the Userdevice of the VBDRecord passed to VBD.Create
\*   devs: the list returned by VM.GetAllowedVBDDevices
\*   tmpl: the IsTemplateDevice value pushed by VBD Commit
Call(op, ok, rec, ref, dev, devs, tmpl) ==
    [op |-> op, ok |-> ok, rec |-> rec, ref |-> ref, dev |-> dev, devs |-> devs,
     tmpl |-> tmpl]

----------------------------------------------------------------------------
(* readVBDFromSchema and fillVBDSchema.                                    *)

ParseModeCaseSensitive(modeStr) ==
    IF modeStr = Str_RO THEN [ok |-> TRUE, mode |-> VbdModeRO]
    ELSE IF modeStr = Str_RW THEN [ok |-> TRUE, mode |-> VbdModeRW]
    ELSE [ok |-> FALSE, mode |-> Str_empty]

\* The mode parsing of readVBDFromSchema
ParseMode(modeStr) ==
    LET _mode == ToLower(modeStr) IN
    IF _mode = ToLower(VbdModeRO) THEN [ok |-> TRUE, mode |-> VbdModeRO]
    ELSE IF _mode = ToLower(VbdModeRW) THEN [ok |-> TRUE, mode |-> VbdModeRW]
    ELSE [ok |-> FALSE, mode |-> Str_empty]

\* readVBDFromSchema(c, s). loadOk is the outcome of the remote call vdi.Load,
\* which is issued only when the record holds the key vdi_uuid.
readVBDFromSchema(rec, loadOk) ==
    IF rec.has_vdi_uuid /\ ~loadOk
    THEN [vbd |-> NilVBD, err |-> ErrRemote]
    ELSE LET vdi == IF rec.has_vdi_uuid THEN VDI(rec.vdi_uuid) ELSE NoVDI
             pm == ParseMode(rec.mode)
         IN IF pm.ok
            THEN [vbd |-> Descriptor(0, Str_empty, "", rec.user_device, FALSE, vdi,
                                     rec.bootable, pm.mode),
                  err |-> ErrNil]
            ELSE [vbd |-> NilVBD, err |-> Err("invalid_mode", rec.mode)]

\* fillVBDSchema(vbd)
fillVBDSchema(d) ==
    LET uuid == IF ~d.vdi.nil THEN d.vdi.uuid ELSE Str_empty IN
    Record(TRUE, uuid, d.bootable, d.mode, d.userDevice, d.isTemplate)

----------------------------------------------------------------------------
(* vbdHash.                                                                *)

\* Bitwise exclusive or of two n-bit naturals
RECURSIVE XorBits(_, _, _)
XorBits(a, b, n) ==
    IF n = 0 THEN 0
    ELSE IF a = 0 THEN b
    ELSE IF b = 0 THEN a
    ELSE (((a % 2) + (b % 2)) % 2) + (2 * XorBits(a \div 2, b \div 2, n - 1))

\* A 32-bit word is the pair <<high 16 bits, low 16 bits>>.
\* One bit of the reflected CRC-32 (IEEE polynomial 0xEDB88320).
CrcBit(w) ==
    LET hi == w[1] \div 2
        lo == (w[2] \div 2) + ((w[1] % 2) * 32768)
    IN IF w[2] % 2 = 1
       THEN <<XorBits(hi, 60856, 16), XorBits(lo, 33568, 16)>>
       ELSE <<hi, lo>>

\* The eight bit steps of one byte
CrcBits(w) == CrcBit(CrcBit(CrcBit(CrcBit(CrcBit(CrcBit(CrcBit(CrcBit(w))))))))

\* The register after byte b
CrcByte(w, b) == CrcBits(<<w[1], XorBits(w[2], b, 16)>>)

\* The values of the 32-bit register
Word32 == (0..65535) \X (0..65535)

\* The register after bytes k, k+1, ... of str, from the register value w
RECURSIVE CrcUpdate(_, _, _)
CrcUpdate(w, str, k) ==
    IF w \notin Word32 \/ k > Len(str) THEN w
    ELSE CrcUpdate(CrcByte(w, str[k]), str, k + 1)

\* crc32.ChecksumIEEE
ChecksumIEEE(str) ==
    LET w == CrcUpdate(<<65535, 65535>>, str, 1) IN <<65535 - w[1], 65535 - w[2]>>

\* hashcode.String: the CRC-32 as an int; with Go's 64-bit int the value is
\* never negative, so it is returned as it is.
HashcodeString(str) == ChecksumIEEE(str)

\* fmt.Sprintf("%t", b)
FormatBool(b) == IF b THEN Str_true ELSE Str_false

HashKeyWithDevice(rec) ==
    IF ~rec.is_from_template
    THEN (Str_dash \o rec.vdi_uuid)
         \o (IF rec.mode # Str_empty THEN Str_dash \o ToLower(rec.mode) ELSE Str_empty)
         \o (Str_dash \o FormatBool(rec.bootable))
         \o rec.user_device
    ELSE rec.user_device

\* The string vbdHash writes into its buffer
HashKey(rec) ==
    IF ~rec.is_from_template
    THEN (Str_dash \o rec.vdi_uuid)
         \o (IF rec.mode # Str_empty THEN Str_dash \o ToLower(rec.mode) ELSE Str_empty)
         \o (Str_dash \o FormatBool(rec.bootable))
    ELSE rec.user_device

\* vbdHash(v)
vbdHash(rec) == HashcodeString(HashKey(rec))

----------------------------------------------------------------------------
(* The inputs the flows are run on.                                        *)

Dev0 == <<48>>
Dev1 == <<49>>
Dev2 == <<50>>
Dev3 == <<51>>
Dev5 == <<53>>

\* Attachments a VM can hold on the remote side before the provider acts.
\* A disk always has an image; only an optical drive can be empty.
RemoteCatalogue ==
    { Descriptor(0, <<118, 97>>, VbdTypeDisk, Dev0, FALSE, VDI(<<100, 97>>), TRUE, VbdModeRW),
      Descriptor(0, <<118, 98>>, VbdTypeDisk, Dev1, TRUE, VDI(<<100, 98>>), FALSE, VbdModeRO),
      Descriptor(0, <<118, 99>>, VbdTypeCD, Dev1, FALSE, NoVDI, FALSE, VbdModeRO),
      Descriptor(0, <<118, 100>>, VbdTypeCD, Dev0, TRUE, VDI(<<100, 100>>), TRUE, VbdModeRO),
      Descriptor(0, <<118, 101>>, VbdTypeFloppy, Dev2, FALSE, VDI(<<100, 101>>), FALSE, VbdModeRW) }

\* Declared records of the creation flow.
RecordCatalogue ==
    { Record(TRUE, Str_empty, FALSE, Str_empty, Dev0, TRUE),
      Record(TRUE, Str_empty, TRUE, <<114, 119>>, Dev0, TRUE),
      Record(TRUE, Str_empty, FALSE, Str_empty, Dev1, TRUE),
      Record(TRUE, <<100, 102>>, TRUE, <<114, 119>>, Dev5, FALSE),
      Record(FALSE, Str_empty, FALSE, <<82, 111>>, Dev5, FALSE),
      Record(TRUE, <<100, 103>>, FALSE, <<120, 120>>, Dev2, FALSE) }

\* Lists VM.GetAllowedVBDDevices can return.
AllowedLists == { <<>>, <<Dev1, Dev2>>, <<Dev3>> }

\* Sequences of at most n distinct elements of S
DistinctSeqs(S, n) ==
    UNION { { q \in [1..k -> S] : \A a, b \in 1..k : a # b => q[a] # q[b] } : k \in 0..n }

\* The remote list built from catalogue entries: reference k is position k.
WithRefs(q) == [k \in 1..Len(q) |-> [q[k] EXCEPT !.ref = k]]

\* Records vbdHash is applied to (every key present, as the assertions require).
HashRecords ==
    { Record(TRUE, u, b, md, d, t) :
        u \in { <<100, 97>>, <<100, 98>> },
        b \in BOOLEAN,
        md \in { Str_empty, Str_RW, <<114, 119>>, Str_RO },
        d \in { Dev0, Dev1 },
        t \in BOOLEAN }

\* Mode strings readVBDFromSchema is applied to.
ModeStrings ==
    { <<a, b>> : a \in {82, 114}, b \in {79, 111, 87, 119} }
    \cup { Str_empty, <<82>>, <<79, 82>>, <<82, 79, 32>>, <<114, 111, 119>>, <<120, 120>> }

ParseRecords ==
    { Record(h, <<100, 97>>, b, md, Dev0, FALSE) :
        h \in BOOLEAN, b \in BOOLEAN, md \in ModeStrings }

----------------------------------------------------------------------------
(* Initial states: one per entry point and input.                          *)

Idle ==
    /\ refs = <<>> /\ i = 1 /\ j = 1 /\ m = 0
    /\ vbd = NilVBD /\ vbdObject = NilVBD
    /\ hdd = <<>> /\ cdrom = <<>> /\ out = <<>>
    /\ hashes = <<>>
    /\ parsed = [vbd |-> NilVBD, err |-> ErrNone]
    /\ bindRet = ErrNone /\ result = ErrNone
    /\ calls = <<>>

InitCreate ==
    /\ flow = "createVBDs" /\ pc = "bind.GetVBDs"
    /\ \E q \in DistinctSeqs(RemoteCatalogue, MaxVBDs) : vmVBDs = WithRefs(q)
    /\ powerState \in {VMPowerStateRunning, VMPowerStateHalted}
    /\ vbdType \in {VbdTypeDisk, VbdTypeCD}
    /\ s \in DistinctSeqs(RecordCatalogue, MaxRecords)
    /\ vbds = <<>>
    /\ Idle

InitRead ==
    /\ flow = "readVBDs" /\ pc = "read.GetVBDs"
    /\ \E q \in DistinctSeqs(RemoteCatalogue, MaxVBDs + 1) : vmVBDs = WithRefs(q)
    /\ powerState = VMPowerStateHalted
    /\ vbdType = VbdTypeDisk
    /\ s = <<>> /\ vbds = <<>>
    /\ Idle

InitDestroy ==
    /\ flow = "destroyTemplateVDIs" /\ pc = "destroy.loop"
    /\ \E q \in DistinctSeqs(RemoteCatalogue, MaxVBDs + 1) : vbds = WithRefs(q)
    /\ vmVBDs = vbds
    /\ powerState = VMPowerStateHalted
    /\ vbdType = VbdTypeDisk
    /\ s = <<>>
    /\ Idle

InitHash ==
    /\ flow = "vbdHash" /\ pc = "hash"
    /\ \E r1, r2 \in HashRecords : s = <<r1, r2>>
    /\ vmVBDs = <<>> /\ vbds = <<>>
    /\ powerState = VMPowerStateHalted
    /\ vbdType = VbdTypeDisk
    /\ Idle

InitParse ==
    /\ flow = "readVBDFromSchema" /\ pc = "parse"
    /\ \E r \in ParseRecords : s = <<r>>
    /\ vmVBDs = <<>> /\ vbds = <<>>
    /\ powerState = VMPowerStateHalted
    /\ vbdType = VbdTypeDisk
    /\ Idle

Init == InitCreate \/ InitRead \/ InitDestroy \/ InitHash \/ InitParse

----------------------------------------------------------------------------
(* The remote side, as the descriptor methods and the API client show it.  *)

\* vbd.Query(c): the descriptor filled from the remote object of reference r
Query(r) == vmVBDs[r]

\* The remote object VBD.Create makes from the VBDRecord obj, under reference r
Created(obj, r) ==
    Descriptor(r, <<110, 48 + r>>, obj.type, obj.userDevice, FALSE, obj.vdi,
               obj.bootable, obj.mode)

Log(c) == calls' = Append(calls, c)

NoArg == <<>>

----------------------------------------------------------------------------
(* readTemplateVBDsToSchema, as run by createVBDs.                         *)

IsIrrelevantNever(t, d) == FALSE

\* "Skip irrelevant VBDs": the test that makes the loop skip an attachment
IsIrrelevant(t, d) == t # d.type

\* The inner loop over the declared records: the index of the first record with
\* is_from_template set and the attachment's user_device, 0 when there is none.
FindMatch(recs, d) ==
    LET hits == { k \in 1..Len(recs) :
                    recs[k].is_from_template /\ recs[k].user_device = d.userDevice }
    IN IF hits = {} THEN 0 ELSE CHOOSE k \in hits : \A h \in hits : k <= h

\* The value of `return err` after a failed vbd.Query: err still holds the
\* nil left by the successful VM.GetVBDs.
BindQueryFailure == ErrNil

\* The five assignments that write the attachment into the matched record
BindWriteBack(rec, d) ==
    [rec EXCEPT !.user_device = d.userDevice,
                !.has_vdi_uuid = TRUE,
                !.vdi_uuid = d.vdi.uuid,
                !.bootable = d.bootable,
                !.mode = d.mode,
                !.is_from_template = TRUE]

\* The write-back on an attachment without an image: user_device is assigned,
\* then the read of vbd.VDI.UUID panics
BindWriteBackNoVDI(rec, d) == [rec EXCEPT !.user_device = d.userDevice]

\* readTemplateVBDsToSchema returned e: createVBDs returns it when it is an
\* error and enters its own loop otherwise.
BindReturn(e) ==
    /\ bindRet' = e
    /\ IF e.kind = "nil"
       THEN pc' = "create.loop" /\ j' = 1 /\ result' = result
       ELSE pc' = "done" /\ j' = j /\ result' = e

\* The end of one iteration of the loop over the references
BindAdvance ==
    /\ i' = i + 1
    /\ IF i + 1 > Len(refs)
       THEN BindReturn(ErrNil)
       ELSE pc' = "bind.Query" /\ UNCHANGED <<bindRet, j, result>>

BindGetVBDs ==
    /\ flow = "createVBDs" /\ pc = "bind.GetVBDs"
    /\ \E ok \in BOOLEAN :
        /\ Log(Call("VM.GetVBDs", ok, 0, 0, NoArg, NoArg, FALSE))
        /\ IF ok
           THEN /\ refs' = [k \in 1..Len(vmVBDs) |-> k]
                /\ i' = 1
                /\ IF Len(vmVBDs) = 0
                   THEN BindReturn(ErrNil)
                   ELSE pc' = "bind.Query" /\ UNCHANGED <<bindRet, j, result>>
           ELSE /\ BindReturn(ErrRemote)
                /\ UNCHANGED <<refs, i>>
    /\ UNCHANGED <<flow, vmVBDs, powerState, vbdType, s, m, vbd, vbdObject, vbds,
                   hdd, cdrom, out, hashes, parsed>>

BindQuery ==
    /\ flow = "createVBDs" /\ pc = "bind.Query"
    /\ \E ok \in BOOLEAN :
        /\ Log(Call("VBD.Query", ok, 0, refs[i], NoArg, NoArg, FALSE))
        /\ IF ~ok
           THEN BindReturn(BindQueryFailure) /\ UNCHANGED <<i, m, vbd>>
           ELSE LET d == Query(refs[i]) IN
                IF IsIrrelevant(vbdType, d)
                THEN BindAdvance /\ UNCHANGED <<m, vbd>>
                ELSE LET k == FindMatch(s, d) IN
                     IF k = 0
                     THEN /\ BindReturn(Err("not_referenced", d.uuid))
                          /\ vbd' = d
                          /\ UNCHANGED <<i, m>>
                     ELSE /\ vbd' = [d EXCEPT !.isTemplate = TRUE]
                          /\ m' = k
                          /\ pc' = "bind.Commit"
                          /\ UNCHANGED <<i, j, bindRet, result>>
    /\ UNCHANGED <<flow, vmVBDs, powerState, vbdType, s, refs, vbdObject, vbds,
                   hdd, cdrom, out, hashes, parsed>>

BindCommit ==
    /\ flow = "createVBDs" /\ pc = "bind.Commit"
    /\ \E ok \in BOOLEAN :
        /\ Log(Call("VBD.Commit", ok, m, vbd.ref, NoArg, NoArg, vbd.isTemplate))
        /\ IF ~ok
           THEN BindReturn(ErrRemote) /\ UNCHANGED <<vmVBDs, s, i>>
           ELSE /\ vmVBDs' = [vmVBDs EXCEPT ![vbd.ref].isTemplate = vbd.isTemplate]
                /\ IF vbd.vdi.nil
                   THEN /\ s' = [s EXCEPT ![m] = BindWriteBackNoVDI(s[m], vbd)]
                        /\ BindReturn(ErrPanic)
                        /\ UNCHANGED i
                   ELSE s' = [s EXCEPT ![m] = BindWriteBack(s[m], vbd)] /\ BindAdvance
    /\ UNCHANGED <<flow, powerState, vbdType, refs, m, vbd, vbdObject, vbds,
                   hdd, cdrom, out, hashes, parsed>>

----------------------------------------------------------------------------
(* createVBDs and createVBD.                                               *)

\* createVBDs returns e
Return(e) == result' = e /\ pc' = "done"

CreateUserdeviceDeclared(d, devices) == d.userDevice

\* The Userdevice of the VBDRecord once the allowed devices are known
CreateUserdevice(d, devices) == devices[1]

\* The xenAPI.VBDRecord createVBD passes to VBD.Create. Only its vdi.nil says
\* whether the record is Empty.
VBDRecord(d, devices) ==
    [d EXCEPT !.userDevice = CreateUserdevice(d, devices)]

ShouldPlugAlways(power) == TRUE

\* The test that guards VBD.Plug
ShouldPlug(power) == power = VMPowerStateRunning

\* The four assignments that write the created attachment into its record
CreateWriteBack(rec, d) ==
    [rec EXCEPT !.user_device = d.userDevice,
                !.has_vdi_uuid = TRUE,
                !.vdi_uuid = d.vdi.uuid,
                !.bootable = d.bootable,
                !.mode = d.mode]

\* The write-back on a descriptor without an image: user_device is assigned,
\* then the read of vbd.VDI.UUID panics
CreateWriteBackNoVDI(rec, d) == [rec EXCEPT !.user_device = d.userDevice]

\* createVBD returned the descriptor d: the write-back, then the next record
CreateDone(d) ==
    IF d.vdi.nil
    THEN /\ s' = [s EXCEPT ![j] = CreateWriteBackNoVDI(s[j], d)]
         /\ Return(ErrPanic)
         /\ UNCHANGED j
    ELSE /\ s' = [s EXCEPT ![j] = CreateWriteBack(s[j], d)]
         /\ j' = j + 1
         /\ pc' = "create.loop"
         /\ UNCHANGED result

\* The head of the loop over the declared records, up to the first remote call
\* of createVBD: the template test, readVBDFromSchema (with its vdi.Load), the
\* type, the VM and the forced mode of an optical drive.
CreateRecord ==
    /\ flow = "createVBDs" /\ pc = "create.loop"
    /\ IF j > Len(s)
       THEN Return(ErrNil) /\ UNCHANGED <<j, vbd, calls>>
       ELSE IF s[j].is_from_template
       THEN j' = j + 1 /\ UNCHANGED <<pc, result, vbd, calls>>
       ELSE \E loadOk \in (IF s[j].has_vdi_uuid THEN BOOLEAN ELSE {TRUE}) :
              LET r == readVBDFromSchema(s[j], loadOk) IN
              /\ IF s[j].has_vdi_uuid
                 THEN Log(Call("VDI.Load", loadOk, j, 0, NoArg, NoArg, FALSE))
                 ELSE calls' = calls
              /\ IF r.err.kind # "nil"
                 THEN Return(r.err) /\ UNCHANGED <<j, vbd>>
                 ELSE /\ vbd' = [r.vbd EXCEPT
                                   !.type = vbdType,
                                   !.mode = IF vbdType = VbdTypeCD THEN VbdModeRO ELSE @]
                      /\ pc' = "create.GetAllowed"
                      /\ UNCHANGED <<j, result>>
    /\ UNCHANGED <<flow, vmVBDs, powerState, vbdType, s, refs, i, m, vbdObject, vbds,
                   hdd, cdrom, out, hashes, parsed, bindRet>>

CreateGetAllowed ==
    /\ flow = "createVBDs" /\ pc = "create.GetAllowed"
    /\ \E ok \in BOOLEAN :
       \E devices \in (IF ok THEN AllowedLists ELSE {<<>>}) :
        /\ Log(Call("VM.GetAllowedVBDDevices", ok, j, 0, NoArg, devices, FALSE))
        /\ IF ~ok
           THEN Return(ErrRemote) /\ UNCHANGED vbdObject
           ELSE IF Len(devices) = 0
           THEN Return(Err("no_devices", Str_empty)) /\ UNCHANGED vbdObject
           ELSE /\ vbdObject' = VBDRecord(vbd, devices)
                /\ pc' = "create.Create"
                /\ UNCHANGED result
    /\ UNCHANGED <<flow, vmVBDs, powerState, vbdType, s, refs, i, j, m, vbd, vbds,
                   hdd, cdrom, out, hashes, parsed, bindRet>>

CreateCreate ==
    /\ flow = "createVBDs" /\ pc = "create.Create"
    /\ \E ok \in BOOLEAN :
        LET r == Len(vmVBDs) + 1 IN
        /\ Log(Call("VBD.Create", ok, j, IF ok THEN r ELSE 0, vbdObject.userDevice,
                    NoArg, FALSE))
        /\ IF ~ok
           THEN Return(ErrRemote) /\ UNCHANGED <<vmVBDs, vbd>>
           ELSE /\ vmVBDs' = Append(vmVBDs, Created(vbdObject, r))
                /\ vbd' = [vbd EXCEPT !.ref = r]
                /\ pc' = "create.Query"
                /\ UNCHANGED result
    /\ UNCHANGED <<flow, powerState, vbdType, s, refs, i, j, m, vbdObject, vbds,
                   hdd, cdrom, out, hashes, parsed, bindRet>>

CreateQuery ==
    /\ flow = "createVBDs" /\ pc = "create.Query"
    /\ \E ok \in BOOLEAN :
        /\ Log(Call("VBD.Query", ok, j, vbd.ref, NoArg, NoArg, FALSE))
        /\ IF ~ok
           THEN Return(ErrRemote) /\ UNCHANGED <<vbd, s, j>>
           ELSE /\ vbd' = Query(vbd.ref)
                /\ IF ShouldPlug(powerState)
                   THEN pc' = "create.Plug" /\ UNCHANGED <<result, s, j>>
                   ELSE CreateDone(vbd')
    /\ UNCHANGED <<flow, vmVBDs, powerState, vbdType, refs, i, m, vbdObject, vbds,
                   hdd, cdrom, out, hashes, parsed, bindRet>>

CreatePlug ==
    /\ flow = "createVBDs" /\ pc = "create.Plug"
    /\ \E ok \in BOOLEAN :
        /\ Log(Call("VBD.Plug", ok, j, vbd.ref, NoArg, NoArg, FALSE))
        /\ IF ~ok
           THEN Return(ErrRemote) /\ UNCHANGED <<s, j>>
           ELSE CreateDone(vbd)
    /\ UNCHANGED <<flow, vmVBDs, powerState, vbdType, refs, i, m, vbd, vbdObject, vbds,
                   hdd, cdrom, out, hashes, parsed, bindRet>>

----------------------------------------------------------------------------
(* readVBDs.                                                               *)

ClassifyUnknownAsDisk(t) == IF t = VbdTypeCD THEN "cdrom" ELSE "hdd"

\* The switch on vbd.Type
Classify(t) ==
    IF t = VbdTypeCD THEN "cdrom"
    ELSE IF t = VbdTypeDisk THEN "hdd"
    ELSE "unsupported"

\* readVBDs returns (nil, nil, e)
ReadFail(e) ==
    /\ out' = <<>> /\ result' = e /\ pc' = "done"

ReadGetVBDs ==
    /\ flow = "readVBDs" /\ pc = "read.GetVBDs"
    /\ \E ok \in BOOLEAN :
        /\ Log(Call("VM.GetVBDs", ok, 0, 0, NoArg, NoArg, FALSE))
        /\ IF ~ok
           THEN ReadFail(ErrRemote) /\ UNCHANGED <<refs, i>>
           ELSE /\ refs' = [k \in 1..Len(vmVBDs) |-> k]
                /\ i' = 1
                /\ IF Len(vmVBDs) = 0
                   THEN out' = <<hdd, cdrom>> /\ result' = ErrNil /\ pc' = "done"
                   ELSE pc' = "read.Query" /\ UNCHANGED <<out, result>>
    /\ UNCHANGED <<flow, vmVBDs, powerState, vbdType, s, j, m, vbd, vbdObject, vbds,
                   hdd, cdrom, hashes, parsed, bindRet>>

\* One iteration of the loop: the query, fillVBDSchema and the switch
ReadQuery ==
    /\ flow = "readVBDs" /\ pc = "read.Query"
    /\ \E ok \in BOOLEAN :
        /\ Log(Call("VBD.Query", ok, 0, refs[i], NoArg, NoArg, FALSE))
        /\ IF ~ok
           THEN ReadFail(ErrRemote) /\ UNCHANGED <<i, vbd, hdd, cdrom>>
           ELSE LET d == Query(refs[i])
                    vbdData == fillVBDSchema(d)
                    kind == Classify(d.type)
                IN /\ vbd' = d
                   /\ IF kind = "unsupported"
                      THEN ReadFail(Err("unsupported_type", Str_empty))
                           /\ UNCHANGED <<i, hdd, cdrom>>
                      ELSE /\ cdrom' = IF kind = "cdrom" THEN Append(cdrom, vbdData) ELSE cdrom
                           /\ hdd' = IF kind = "hdd" THEN Append(hdd, vbdData) ELSE hdd
                           /\ i' = i + 1
                           /\ IF i + 1 > Len(refs)
                              THEN out' = <<hdd', cdrom'>> /\ result' = ErrNil /\ pc' = "done"
                              ELSE UNCHANGED <<out, result, pc>>
    /\ UNCHANGED <<flow, vmVBDs, powerState, vbdType, s, refs, j, m, vbdObject, vbds,
                   hashes, parsed, bindRet>>

----------------------------------------------------------------------------
(* destroyTemplateVDIs.                                                    *)

NeedsDestroyAlways(d) == TRUE

\* "Only relevant to HDDs": the test that lets an attachment reach VDI.Destroy
NeedsDestroy(d) == d.type = VbdTypeDisk

\* One iteration of the loop over the descriptors
DestroyStep ==
    /\ flow = "destroyTemplateVDIs" /\ pc = "destroy.loop"
    /\ IF i > Len(vbds)
       THEN Return(ErrNil) /\ UNCHANGED <<i, calls>>
       ELSE IF ~NeedsDestroy(vbds[i])
       THEN i' = i + 1 /\ UNCHANGED <<pc, result, calls>>
       ELSE IF vbds[i].vdi.nil
       THEN Return(ErrPanic) /\ UNCHANGED <<i, calls>>
       ELSE \E ok \in BOOLEAN :
              /\ Log(Call("VDI.Destroy", ok, 0, vbds[i].ref, NoArg, NoArg, FALSE))
              /\ IF ok
                 THEN i' = i + 1 /\ UNCHANGED <<pc, result>>
                 ELSE Return(ErrRemote) /\ UNCHANGED i
    /\ UNCHANGED <<flow, vmVBDs, powerState, vbdType, s, refs, j, m, vbd, vbdObject, vbds,
                   hdd, cdrom, out, hashes, parsed, bindRet>>

----------------------------------------------------------------------------
(* vbdHash and readVBDFromSchema applied to their inputs.                  *)

\* The framework fingerprints the next record of the set
HashStep ==
    /\ flow = "vbdHash" /\ pc = "hash"
    /\ hashes' = Append(hashes, vbdHash(s[Len(hashes) + 1]))
    /\ pc' = IF Len(hashes) + 1 = Len(s) THEN "done" ELSE "hash"
    /\ UNCHANGED <<flow, vmVBDs, powerState, vbdType, s, refs, i, j, m, vbd, vbdObject,
                   vbds, hdd, cdrom, out, parsed, bindRet, result, calls>>

\* readVBDFromSchema on one record
ParseStep ==
    /\ flow = "readVBDFromSchema" /\ pc = "parse"
    /\ \E loadOk \in (IF s[1].has_vdi_uuid THEN BOOLEAN ELSE {TRUE}) :
        /\ parsed' = readVBDFromSchema(s[1], loadOk)
        /\ IF s[1].has_vdi_uuid
           THEN Log(Call("VDI.Load", loadOk, 1, 0, NoArg, NoArg, FALSE))
           ELSE calls' = calls
    /\ pc' = "done"
    /\ UNCHANGED <<flow, vmVBDs, powerState, vbdType, s, refs, i, j, m, vbd, vbdObject,
                   vbds, hdd, cdrom, out, hashes, bindRet, result>>

----------------------------------------------------------------------------

Next ==
    \/ BindGetVBDs \/ BindQuery \/ BindCommit
    \/ CreateRecord \/ CreateGetAllowed \/ CreateCreate \/ CreateQuery \/ CreatePlug
    \/ ReadGetVBDs \/ ReadQuery
    \/ DestroyStep
    \/ HashStep
    \/ ParseStep

Spec == Init /\ [][Next]_vars

----------------------------------------------------------------------------
(* Properties.                                                             *)

Creating == flow = "createVBDs"
CallIdx == 1..Len(calls)
BindingReturned == bindRet.kind # "none"

\* C1 as stated: in the template-binding flow only an attachment that is marked
\* template-origin on the remote side is matched, committed or reported as
\* "template VBD ... is not referenced"; an unmarked one is skipped.
C1_OnlyMarkedAreBound ==
    Creating =>
        /\ (pc = "bind.Commit" => vmVBDs[vbd.ref].isTemplate)
        /\ (bindRet.kind = "not_referenced" => vmVBDs[vbd.ref].isTemplate)

\* C1 amended: the binding loop skips an attachment exactly when its kind is not
\* the requested kind, whatever its template-origin mark: only attachments of
\* the requested kind are matched, committed or reported as not referenced, and
\* for a VM with no attachment of the requested kind the binding returns nil,
\* with no commit, for any declared record list, once VM.GetVBDs has succeeded.
C1_OnlyRequestedKindIsBound ==
    Creating =>
        /\ (pc = "bind.Commit" => vbd.type = vbdType)
        /\ (bindRet.kind = "not_referenced" => vbd.type = vbdType)
        /\ \A k \in CallIdx :
             calls[k].op = "VBD.Commit" => vmVBDs[calls[k].ref].type = vbdType
        /\ ( /\ BindingReturned
             /\ calls[1].ok
             /\ \A r \in 1..Len(refs) : vmVBDs[r].type # vbdType )
           => /\ bindRet.kind = "nil"
              /\ \A k \in CallIdx : calls[k].op # "VBD.Commit"

\* C1 witness: the binding returned nil for a VM whose attachments, all queried,
\* are all of another kind, one of them marked template-origin, with a declared
\* record list holding no template-origin record.
C1_Witness ==
    /\ Creating /\ bindRet.kind = "nil" /\ pc = "create.loop" /\ j = 1
    /\ Len(refs) = 2 /\ Len(calls) = 3
    /\ \A k \in CallIdx : calls[k].ok
    /\ \A r \in 1..Len(refs) : vmVBDs[r].type # vbdType
    /\ \E r \in 1..Len(refs) : vmVBDs[r].isTemplate
    /\ Len(s) >= 1 /\ \A k \in 1..Len(s) : ~s[k].is_from_template

\* C2 as stated: for every attachment the binding matched and committed, the
\* commit carried the template-origin flag, targeted the first declared record
\* with is_from_template and the attachment's user_device, was the only commit
\* for that attachment, and the record's user_device, vdi_uuid, bootable and
\* mode now are the attachment's; when no record matches, the error names the
\* attachment's UUID and no VBD.Create has been issued.
C2_BindOutcome ==
    Creating =>
        /\ \A k \in CallIdx :
             (calls[k].op = "VBD.Commit" /\ calls[k].ok) =>
                LET d == vmVBDs[calls[k].ref]
                    rec == s[calls[k].rec]
                IN /\ calls[k].tmpl
                   /\ d.isTemplate
                   /\ rec.is_from_template
                   /\ rec.user_device = d.userDevice
                   /\ \A h \in 1..(calls[k].rec - 1) :
                        ~(s[h].is_from_template /\ s[h].user_device = d.userDevice)
                   /\ \A h \in CallIdx :
                        (calls[h].op = "VBD.Commit" /\ calls[h].ref = calls[k].ref) => h = k
                   /\ rec.vdi_uuid = d.vdi.uuid
                   /\ rec.bootable = d.bootable
                   /\ rec.mode = d.mode
        /\ (bindRet.kind = "not_referenced" =>
                /\ bindRet.arg = vbd.uuid
                /\ vbd.type = vbdType
                /\ FindMatch(s, vbd) = 0
                /\ result = bindRet
                /\ pc = "done"
                /\ \A k \in CallIdx : calls[k].op # "VBD.Create")

\* C3 as stated: a failed remote call of createVBDs is the last call it issues,
\* and createVBDs has then returned a non-nil error.
C3_FailureAborts ==
    Creating =>
        \A k \in CallIdx :
            ~calls[k].ok =>
                /\ k = Len(calls)
                /\ pc = "done"
                /\ result.kind \notin {"nil", "none"}

\* C10 as stated: a flow that writes record fields from a queried attachment never
\* crashes on an attachment without a disk image.
C10_NoCrashOnEmptyDrive ==
    (flow \in {"createVBDs", "readVBDs"}) => result.kind # "panic"

\* C4: every VBD.Create directly follows a successful VM.GetAllowedVBDDevices for
\* the same record that returned a non-empty list, and carries that list's first
\* element as Userdevice, which the created attachment then has; a failed or
\* empty VM.GetAllowedVBDDevices is the last call issued and makes createVBDs
\* return an error.
C4_FirstAllowedDevice ==
    Creating =>
        \A k \in CallIdx :
            /\ calls[k].op = "VBD.Create" =>
                 /\ k > 1
                 /\ calls[k - 1].op = "VM.GetAllowedVBDDevices"
                 /\ calls[k - 1].ok
                 /\ calls[k - 1].rec = calls[k].rec
                 /\ Len(calls[k - 1].devs) > 0
                 /\ calls[k].dev = calls[k - 1].devs[1]
                 /\ (calls[k].ok => vmVBDs[calls[k].ref].userDevice = calls[k - 1].devs[1])
            /\ (calls[k].op = "VM.GetAllowedVBDDevices"
                    /\ (~calls[k].ok \/ Len(calls[k].devs) = 0)) =>
                 /\ k = Len(calls)
                 /\ pc = "done"
                 /\ result.kind = (IF calls[k].ok THEN "no_devices" ELSE "remote")

\* C4 witness: an attachment was created on the first allowed slot, "1" of
\* <<"1", "2">>, for a record that declares user_device "5".
C4_Witness ==
    /\ Creating /\ pc = "create.Query"
    /\ calls[Len(calls)].op = "VBD.Create"
    /\ calls[Len(calls) - 1].devs = <<Dev1, Dev2>>
    /\ calls[Len(calls)].dev = Dev1
    /\ s[j].user_device = Dev5
    /\ vmVBDs[vbd.ref].userDevice = Dev1

IsDisk(d) == d.type = VbdTypeDisk
IsCD(d) == d.type = VbdTypeCD
DiskPositions(n) == { k \in 1..n : IsDisk(vbds[k]) }

\* C5: destroyTemplateVDIs issues VDI.Destroy for disk attachments only, in list
\* order and at most once each; every disk before the loop position has had its
\* call, so a nil return means exactly one call per disk; a failed call is the
\* last call and its error is returned.
C5_DestroyDisksOnly ==
    (flow = "destroyTemplateVDIs") =>
        /\ \A k \in CallIdx :
             /\ calls[k].op = "VDI.Destroy"
             /\ IsDisk(vbds[calls[k].ref])
             /\ (k < Len(calls) => calls[k].ok /\ calls[k].ref < calls[k + 1].ref)
             /\ (~calls[k].ok => pc = "done" /\ result = ErrRemote /\ calls[k].ref = i)
        /\ { calls[k].ref : k \in { h \in CallIdx : calls[h].ok } } = DiskPositions(i - 1)
        /\ (pc = "done" /\ result.kind = "nil") =>
             /\ i = Len(vbds) + 1
             /\ Len(calls) = Cardinality(DiskPositions(Len(vbds)))

\* C5 witness: a list with an optical drive between two disks was processed to
\* the end, with one call per disk.
C5_Witness ==
    /\ flow = "destroyTemplateVDIs" /\ pc = "done" /\ result.kind = "nil"
    /\ Len(vbds) = 3 /\ IsDisk(vbds[1]) /\ IsCD(vbds[2]) /\ IsDisk(vbds[3])
    /\ Len(calls) = 2

\* The records readVBDs must return for the attachments that satisfy Test
Expected(Test(_)) ==
    LET sel == SelectSeq(vmVBDs, Test) IN
    [k \in 1..Len(sel) |->
        Record(TRUE, IF sel[k].vdi.nil THEN Str_empty ELSE sel[k].vdi.uuid,
               sel[k].bootable, sel[k].mode, sel[k].userDevice, sel[k].isTemplate)]

\* C6: when readVBDs returns nil every attachment is a disk or an optical drive,
\* the hard-drive list holds the disks' records and the cdrom list the optical
\* drives' records, each in enumeration order, the lengths adding up to the
\* number of attachments; when it returns an error both lists are absent; and it
\* returns an error whenever a call failed or an attachment reached by the loop
\* has another kind.
C6_ReadAllOrNothing ==
    (flow = "readVBDs" /\ pc = "done") =>
        /\ (result.kind = "nil") =>
             /\ Len(out) = 2
             /\ \A k \in 1..Len(vmVBDs) : IsDisk(vmVBDs[k]) \/ IsCD(vmVBDs[k])
             /\ out[1] = Expected(IsDisk)
             /\ out[2] = Expected(IsCD)
             /\ Len(out[1]) + Len(out[2]) = Len(vmVBDs)
             /\ \A k \in CallIdx : calls[k].ok
        /\ (result.kind # "nil") =>
             /\ out = <<>>
             /\ result.kind \in {"remote", "unsupported_type"}
             /\ (result.kind = "unsupported_type" => ~IsDisk(vbd) /\ ~IsCD(vbd))

\* C6 witness: a successful read of a VM with two disks and an empty optical
\* drive between them.
C6_Witness ==
    /\ flow = "readVBDs" /\ pc = "done" /\ result.kind = "nil"
    /\ Len(vmVBDs) = 3 /\ IsDisk(vmVBDs[1]) /\ IsCD(vmVBDs[2]) /\ IsDisk(vmVBDs[3])
    /\ vmVBDs[2].vdi.nil
    /\ Len(out[1]) = 2 /\ Len(out[2]) = 1
    /\ out[2][1].vdi_uuid = Str_empty

\* The same string up to the case of its ASCII letters
SameUpToCase(a, b) ==
    /\ Len(a) = Len(b)
    /\ \A k \in 1..Len(a) :
         \/ a[k] = b[k]
         \/ (a[k] \in 65..90 /\ b[k] = a[k] + 32)
         \/ (b[k] \in 65..90 /\ a[k] = b[k] + 32)

\* C7: two non-template records with the same image UUID, the same mode up to
\* letter case and the same bootable flag have equal fingerprints whatever their
\* device slots, and two template-origin records with the same device slot have
\* equal fingerprints whatever their other fields.
C7_FingerprintPolicy ==
    (flow = "vbdHash" /\ pc = "done") =>
        /\ ( /\ ~s[1].is_from_template /\ ~s[2].is_from_template
             /\ s[1].vdi_uuid = s[2].vdi_uuid
             /\ SameUpToCase(s[1].mode, s[2].mode)
             /\ s[1].bootable = s[2].bootable )
           => hashes[1] = hashes[2]
        /\ ( /\ s[1].is_from_template /\ s[2].is_from_template
             /\ s[1].user_device = s[2].user_device )
           => hashes[1] = hashes[2]

\* C7 witness: two non-template records that differ in device slot and in the
\* case of the mode were fingerprinted, to the CRC-32 of "-da-rw-true".
C7_Witness ==
    /\ flow = "vbdHash" /\ pc = "done"
    /\ ~s[1].is_from_template /\ ~s[2].is_from_template
    /\ s[1].vdi_uuid = s[2].vdi_uuid /\ s[1].bootable /\ s[2].bootable
    /\ s[1].mode = Str_RW /\ s[2].mode = <<114, 119>>
    /\ s[1].user_device = Dev0 /\ s[2].user_device = Dev1
    /\ s[1].vdi_uuid = <<100, 97>>
    /\ hashes = << <<24529, 45321>>, <<24529, 45321>> >>

\* A letter-case variant of the two-letter word made of bytes x and y (capitals)
IsVariant(str, x, y) ==
    /\ Len(str) = 2
    /\ str[1] \in {x, x + 32}
    /\ str[2] \in {y, y + 32}
IsRO(str) == IsVariant(str, 82, 79)
IsRW(str) == IsVariant(str, 82, 87)

\* C8: readVBDFromSchema returns read-only for every letter-case variant of "RO"
\* and read-write for every variant of "RW" (the image lookup, if any, having
\* succeeded), and for any other mode string returns no attachment and an
\* error, the validation error unless the image lookup failed first; in
\* createVBDs no VM.GetAllowedVBDDevices or VBD.Create call is issued for a
\* record whose mode is not such a variant, the optical kind included, and a
\* validation error is returned with the record's mode when the loop reads it.
C8_ModeParsing ==
    /\ (flow = "readVBDFromSchema" /\ pc = "done") =>
         LET md == s[1].mode
             loaded == \A k \in CallIdx : calls[k].ok
         IN /\ (IsRO(md) /\ loaded) =>
                 /\ parsed.err.kind = "nil" /\ ~parsed.vbd.nil
                 /\ parsed.vbd.mode = VbdModeRO
            /\ (IsRW(md) /\ loaded) =>
                 /\ parsed.err.kind = "nil" /\ ~parsed.vbd.nil
                 /\ parsed.vbd.mode = VbdModeRW
            /\ (~IsRO(md) /\ ~IsRW(md)) =>
                 /\ parsed.vbd.nil
                 /\ parsed.err.kind = (IF loaded THEN "invalid_mode" ELSE "remote")
                 /\ (loaded => parsed.err.arg = md)
    /\ Creating =>
         /\ \A k \in CallIdx :
              calls[k].op \in {"VM.GetAllowedVBDDevices", "VBD.Create"} =>
                 (IsRO(s[calls[k].rec].mode) \/ IsRW(s[calls[k].rec].mode))
         /\ (pc \in {"create.GetAllowed", "create.Create"}) =>
              (IsRO(s[j].mode) \/ IsRW(s[j].mode))
         /\ (pc = "create.GetAllowed" /\ vbdType = VbdTypeDisk) =>
              vbd.mode = (IF IsRO(s[j].mode) THEN VbdModeRO ELSE VbdModeRW)
         /\ (result.kind = "invalid_mode") =>
              /\ result.arg = s[j].mode
              /\ ~IsRO(s[j].mode) /\ ~IsRW(s[j].mode)
              /\ \A k \in CallIdx :
                   calls[k].rec = j =>
                      calls[k].op \notin {"VM.GetAllowedVBDDevices", "VBD.Create"}

\* C8 witness: createVBDs for optical drives has read a record with mode "xx",
\* after creating the record before it, and returned the validation error.
C8_Witness ==
    /\ Creating /\ pc = "done" /\ vbdType = VbdTypeCD
    /\ result = Err("invalid_mode", <<120, 120>>)
    /\ j = 2
    /\ \E k \in CallIdx : calls[k].op = "VBD.Create" /\ calls[k].ok /\ calls[k].rec = 1

\* C9: the calls createVBDs issues for a record come in the order
\* VM.GetAllowedVBDDevices, VBD.Create, the re-query, VBD.Plug, each directly
\* after the success of the one before; VBD.Plug is issued, on the reference the
\* Create returned, exactly when the re-query succeeded and the VM's observed
\* power state is running; no such call is issued for a template-origin record;
\* and the VBD.Create calls follow the order of the records.
C9_CreationOrder ==
    Creating =>
        \A k \in CallIdx :
            /\ (calls[k].op = "VBD.Create") =>
                 /\ k > 1
                 /\ calls[k - 1].op = "VM.GetAllowedVBDDevices"
                 /\ calls[k - 1].ok /\ calls[k - 1].rec = calls[k].rec
                 /\ \A h \in 1..(k - 1) :
                      calls[h].op = "VBD.Create" => calls[h].rec < calls[k].rec
            /\ (calls[k].op = "VBD.Query" /\ calls[k].rec # 0) =>
                 /\ calls[k - 1].op = "VBD.Create"
                 /\ calls[k - 1].ok /\ calls[k - 1].rec = calls[k].rec
                 /\ calls[k - 1].ref = calls[k].ref
                 /\ (calls[k].ok /\ powerState = VMPowerStateRunning) =>
                      IF k = Len(calls)
                      THEN pc = "create.Plug"
                      ELSE /\ calls[k + 1].op = "VBD.Plug"
                           /\ calls[k + 1].rec = calls[k].rec
            /\ (calls[k].op = "VBD.Create" /\ calls[k].ok) =>
                 IF k = Len(calls)
                 THEN pc = "create.Query"
                 ELSE calls[k + 1].op = "VBD.Query" /\ calls[k + 1].rec = calls[k].rec
            /\ (calls[k].op = "VBD.Plug") =>
                 /\ powerState = VMPowerStateRunning
                 /\ k > 2
                 /\ calls[k - 1].op = "VBD.Query" /\ calls[k - 1].ok
                 /\ calls[k - 2].op = "VBD.Create" /\ calls[k - 2].ok
                 /\ calls[k].ref = calls[k - 2].ref
                 /\ calls[k].rec = calls[k - 2].rec
            /\ (calls[k].op \in {"VDI.Load", "VM.GetAllowedVBDDevices", "VBD.Create", "VBD.Plug"}) =>
                 ~s[calls[k].rec].is_from_template

\* C9 witness: on a running VM the second declared record, which follows a
\* template-origin record, was created, re-queried and plugged.
C9_Witness ==
    /\ Creating /\ powerState = VMPowerStateRunning
    /\ Len(s) = 2 /\ s[1].is_from_template
    /\ Len(calls) >= 4
    /\ LET n == Len(calls) IN
         /\ calls[n].op = "VBD.Plug" /\ calls[n].ok /\ calls[n].rec = 2
         /\ calls[n - 1].op = "VBD.Query"
         /\ calls[n - 2].op = "VBD.Create" /\ calls[n - 2].ref = calls[n].ref
         /\ calls[n - 3].op = "VM.GetAllowedVBDDevices"
    /\ pc = "create.loop" /\ j = 3

====
